---- MODULE Spec2Model ----
(***************************************************************************)
(* The foreign resource registry of native/duckling/src/lib.rs: the two    *)
(* process-wide tables CONNECTIONS and QUERIES, each an RwLock around an   *)
(* Option of a HashMap plus a lifetime counter, the per-connection Mutex,  *)
(* and the NIFs load, open, close, query, library_version and              *)
(* number_of_threads, run by the host's dirty-scheduler threads.           *)
(*                                                                         *)
(* A NIF is a sequence of steps; a step that acquires a lock is enabled    *)
(* only when the lock can be taken, so a thread whose next step is         *)
(* disabled is a thread blocked in lock(), read() or write().  A panic     *)
(* (an unwrap of None or Err) unwinds the NIF: the guards it holds are     *)
(* dropped, a write guard or a mutex guard dropped while panicking         *)
(* poisons its lock, and the call ends with kind "panic".                  *)
(*                                                                         *)
(* Spec is the library as the host runs it: load once, then the NIFs.      *)
(* FairSpec adds a fair scheduler to it.  SpecReload lets load run again   *)
(* on tables that exist, SpecEarly lets the functions be called before     *)
(* load, and SpecOverflow starts lifetime_connections just below the       *)
(* limit of its type.                                                      *)
(***************************************************************************)
EXTENDS Integers, Sequences, FiniteSets, TLC

\* ------------------------------------------------------------- bounds
\* open is not started once it has returned this many identifiers; the
\* opens already past their native call still insert, so with two threads
\* one more can be returned.
MaxConnections == 1
\* query is not started once it has issued this many identifiers; the
\* queries already started still insert.
MaxQueries == 1

\* u64::MAX, the last value lifetime_connections and lifetime_queries can
\* hold. TLC's integers are 32 bits wide, so the model puts the limit at
\* the largest of them; the counters meet it only by the comparison
\* n = U64Max, and a counter that is to overflow starts just below it.
U64Max == 2147483647

\* The host threads that run NIFs.
Threads == {"t1", "t2"}
NoThread == "none"

\* Connection identifiers a caller may pass: every one the two threads can
\* get issued within the bound. One above lifetime_connections has not
\* been issued yet.
ConnIds == 1 .. (MaxConnections + 1)

\* ------------------------------------------------------------- terms
\* Host terms handed to open in config_settings.
AtomT(a) == [type |-> "atom", a |-> a, n |-> 0]
IntT(n) == [type |-> "int", a |-> "", n |-> n]
Absent == [type |-> "absent", a |-> "", n |-> 0]

\* Atom::decode: Ok for an atom term. true and false are atoms to the host.
DecodeAtomOk(term) == term.type = "atom"

\* bool::decode: Ok for the atoms true and false only.
DecodeBoolOk(term) == term.type = "atom" /\ term.a \in {"true", "false"}

\* u32::decode: Ok for an integer term in the range of u32 (the model's
\* integer terms are far below 2^32, so only the sign decides).
DecodeU32Ok(term) == term.type = "int" /\ term.n >= 0

\* The keys open looks up in config_settings.
ConfigKeys ==
    {"access_mode", "maximum_memory", "maximum_threads", "default_order_type",
     "default_null_order", "enable_external_access", "object_cache_enable",
     "allow_unsigned_extensions"}

\* Config::default(): every option left to the engine.
DefaultConfig ==
    [access_mode |-> "default", max_memory |-> "default", threads |-> "default",
     default_order |-> "default", default_null_order |-> "default",
     enable_external_access |-> "default", enable_object_cache |-> "default",
     allow_unsigned_extensions |-> "default"]

Get(config_settings, key) == config_settings[key]

\* config_settings.get(access_mode) and the match on the decoded atom.
ApplyAccessMode(b, cs) ==
    LET val == Get(cs, "access_mode") IN
    IF val = Absent \/ ~DecodeAtomOk(val) THEN b
    ELSE IF val.a = "automatic"
         THEN [b EXCEPT !.config.access_mode = "Automatic"]
    ELSE IF val.a = "read_only"
         THEN [b EXCEPT !.config.access_mode = "ReadOnly"]
    ELSE IF val.a = "read_write"
         THEN [b EXCEPT !.config.access_mode = "ReadWrite"]
    ELSE b

\* config_settings.get(maximum_memory): u32::decode(..).unwrap() + "b".
ApplyMaximumMemory(b, cs) ==
    LET val == Get(cs, "maximum_memory") IN
    IF val = Absent THEN b
    ELSE IF ~DecodeU32Ok(val) THEN [b EXCEPT !.panic = TRUE]
    ELSE [b EXCEPT !.config.max_memory = ToString(val.n) \o "b"]

\* config_settings.get(maximum_threads): thread_count and Config::threads.
ApplyMaximumThreads(b, cs) ==
    LET val == Get(cs, "maximum_threads") IN
    IF val = Absent THEN b
    ELSE IF ~DecodeU32Ok(val) THEN [b EXCEPT !.panic = TRUE]
    ELSE [b EXCEPT !.thread_count = val.n,
                   !.config.threads = ToString(val.n)]

\* config_settings.get(default_order_type).
ApplyDefaultOrder(b, cs) ==
    LET val == Get(cs, "default_order_type") IN
    IF val = Absent \/ ~DecodeAtomOk(val) THEN b
    ELSE IF val.a = "asc" THEN [b EXCEPT !.config.default_order = "Asc"]
    ELSE IF val.a = "desc" THEN [b EXCEPT !.config.default_order = "Desc"]
    ELSE b

\* config_settings.get(default_null_order); the first atom is nulls_firs.
ApplyDefaultNullOrder(b, cs) ==
    LET val == Get(cs, "default_null_order") IN
    IF val = Absent \/ ~DecodeAtomOk(val) THEN b
    ELSE IF val.a = "nulls_firs"
         THEN [b EXCEPT !.config.default_null_order = "NullsFirst"]
    ELSE IF val.a = "nulls_last"
         THEN [b EXCEPT !.config.default_null_order = "NullsLast"]
    ELSE b

\* config_settings.get(enable_external_access): bool::decode(..).unwrap().
ApplyExternalAccess(b, cs) ==
    LET val == Get(cs, "enable_external_access") IN
    IF val = Absent THEN b
    ELSE IF ~DecodeBoolOk(val) THEN [b EXCEPT !.panic = TRUE]
    ELSE [b EXCEPT !.config.enable_external_access = val.a]

\* config_settings.get(object_cache_enable): bool::decode(..).unwrap().
ApplyObjectCache(b, cs) ==
    LET val == Get(cs, "object_cache_enable") IN
    IF val = Absent THEN b
    ELSE IF ~DecodeBoolOk(val) THEN [b EXCEPT !.panic = TRUE]
    ELSE [b EXCEPT !.config.enable_object_cache = val.a]

\* config_settings.get(allow_unsigned_extensions): set only when true.
ApplyUnsignedExtensions(b, cs) ==
    LET val == Get(cs, "allow_unsigned_extensions") IN
    IF val = Absent THEN b
    ELSE IF ~DecodeBoolOk(val) THEN [b EXCEPT !.panic = TRUE]
    ELSE IF val.a = "true"
         THEN [b EXCEPT !.config.allow_unsigned_extensions = "true"]
    ELSE b

\* The configuration part of open: thread_count, config, and whether an
\* unwrap panicked on the way. One option after the other, as open does;
\* the first unwrap that fails ends the call, so nothing after it is applied.
BuildConfig(cs) ==
    LET b0 == [thread_count |-> 0, config |-> DefaultConfig, panic |-> FALSE]
        b1 == ApplyAccessMode(b0, cs)
        b2 == ApplyMaximumMemory(b1, cs)
        b3 == IF b2.panic THEN b2 ELSE ApplyMaximumThreads(b2, cs)
        b4 == IF b3.panic THEN b3 ELSE ApplyDefaultOrder(b3, cs)
        b5 == IF b4.panic THEN b4 ELSE ApplyDefaultNullOrder(b4, cs)
        b6 == IF b5.panic THEN b5 ELSE ApplyExternalAccess(b5, cs)
        b7 == IF b6.panic THEN b6 ELSE ApplyObjectCache(b6, cs)
    IN  IF b7.panic THEN b7 ELSE ApplyUnsignedExtensions(b7, cs)

\* The config_settings maps the model hands to open: the empty map, and
\* for each key one map with a value open accepts and one with a value
\* whose decode fails or whose atom it does not know.
EmptySettings == [k \in ConfigKeys |-> Absent]
With(key, val) == [EmptySettings EXCEPT ![key] = val]
ConfigInputs ==
    {EmptySettings}
    \cup {With("maximum_threads", v) : v \in {IntT(4), IntT(-1), AtomT("four")}}
    \cup {With("access_mode", v) : v \in {AtomT("read_only"), AtomT("bogus"), IntT(7)}}
    \cup {With("maximum_memory", v) : v \in {IntT(1024), AtomT("big")}}
    \cup {With("default_order_type", v) : v \in {AtomT("desc"), IntT(7)}}
    \cup {With("default_null_order", v) : v \in {AtomT("nulls_last"), AtomT("nulls_first")}}
    \cup {With("enable_external_access", v) : v \in {AtomT("false"), IntT(7)}}
    \cup {With("object_cache_enable", v) : v \in {AtomT("true"), IntT(7)}}
    \cup {With("allow_unsigned_extensions", v) : v \in {AtomT("true"), AtomT("false"), IntT(7)}}

\* What open keeps of a config_settings map once the config is built and
\* handed to the engine: whether an unwrap panicked, thread_count, and (for
\* the history) the maximum_threads term it was given.
OpenInputs ==
    {[panic |-> BuildConfig(cs).panic,
      thread_count |-> BuildConfig(cs).thread_count,
      max_threads |-> IF BuildConfig(cs).panic THEN Absent
                      ELSE Get(cs, "maximum_threads")] : cs \in ConfigInputs}

\* The paths handed to open: the in-memory sentinel and a file.
Paths == {":memory:", "data.duckdb"}

\* The match on path: Connection::open_in_memory_with_flags(config) for the
\* sentinel, Connection::open_with_flags(path, config) otherwise; each is
\* Ok or Err as the engine decides.
NativeOpen(path) ==
    IF path = ":memory:" THEN {"Ok", "Err"} ELSE {"Ok", "Err"}

\* ------------------------------------------------------------- state
VARIABLES
    library,        \* the host's view of the NIF library: unloaded, loading, loaded
    CONNECTIONS,    \* the Option<Conns> inside the static CONNECTIONS
    connLock,       \* the RwLock of CONNECTIONS: writer, readers, poisoned
    QUERIES,        \* the Option<Qrys> inside the static QUERIES
    qryLock,        \* the RwLock of QUERIES
    pc,             \* where each thread is in the NIF it runs
    local,          \* the locals of the NIF a thread runs
    result,         \* what the last NIF of a thread returned to the host
    openReturns,    \* history: the identifiers open returned, in commit order
    queryReturns,   \* history: the identifiers query returned, in commit order
    requested       \* history: for each live connection, the maximum_threads term its open was given

tables == <<CONNECTIONS, QUERIES>>
locks == <<connLock, qryLock>>
history == <<openReturns, queryReturns, requested>>
vars == <<library, CONNECTIONS, connLock, QUERIES, qryLock, pc, local, result,
          openReturns, queryReturns, requested>>

\* No entries: HashMap::new().
EmptyMap == <<>>

\* RwLock::new(None): nobody holds it, not poisoned.
FreeLock == [writer |-> NoThread, readers |-> {}, poisoned |-> FALSE]

\* The locals of a thread that runs no NIF.
NoLocal == [conn_id |-> 0, thread_count |-> 0, max_threads |-> Absent,
            ret |-> "", id |-> 0]

\* A thread that has not returned from any NIF yet.
NoResult == [op |-> "", kind |-> "", val |-> 0, str |-> ""]

\* What a NIF hands back: op names the NIF; kind is ok, error, u32, string
\* or panic; val is the number and str the text returned.
Ret(op, kind, val, str) ==
    [op |-> op, kind |-> kind, val |-> val, str |-> str]

Init ==
    /\ library = "unloaded"
    /\ CONNECTIONS = [some |-> FALSE, connections |-> EmptyMap, lifetime_connections |-> 0]
    /\ connLock = FreeLock
    /\ QUERIES = [some |-> FALSE, queries |-> EmptyMap, lifetime_queries |-> 0]
    /\ qryLock = FreeLock
    /\ pc = [t \in Threads |-> "idle"]
    /\ local = [t \in Threads |-> NoLocal]
    /\ result = [t \in Threads |-> NoResult]
    /\ openReturns = <<>>
    /\ queryReturns = <<>>
    /\ requested = EmptyMap

\* ------------------------------------------------------------- locks
\* A write lock that does not wait for the readers.
CanWriteDespiteReaders(lock) == lock.writer = NoThread

\* RwLock::write blocks while a writer or any reader holds the lock.
CanWrite(lock) == lock.writer = NoThread /\ lock.readers = {}

\* RwLock::read blocks while a writer holds the lock.
CanRead(lock) == lock.writer = NoThread

\* A mutex that never blocks.
MutexAlwaysFree(slot) == TRUE

\* Mutex::lock blocks while another guard of the same mutex is alive.
MutexFree(slot) == slot.mutex = NoThread

\* Dropping a write guard; dropped while panicking it poisons the lock.
ReleaseWrite(lock, panicking) ==
    [lock EXCEPT !.writer = NoThread, !.poisoned = @ \/ panicking]

\* A read guard that is forgotten instead of dropped.
ReleaseReadLeaked(lock, t) == lock

\* Dropping the read guard of thread t; a read guard never poisons.
ReleaseRead(lock, t) == [lock EXCEPT !.readers = @ \ {t}]

\* HashMap::insert and HashMap::remove.
Insert(map, key, value) ==
    [k \in DOMAIN map \cup {key} |-> IF k = key THEN value ELSE map[k]]

\* HashMap::clear in the place of remove: every entry goes.
RemoveEvery(map, key) == EmptyMap

Remove(map, key) == [k \in DOMAIN map \ {key} |-> map[k]]

\* The increment left out.
NextIdForgotten(n) == n

\* lifetime_connections += 1 and lifetime_queries += 1.
NextId(n) == IF n = U64Max THEN 0 ELSE n + 1

\* Whether lifetime += 1 panics on a counter at n: never below the limit;
\* at the limit it does in a build with overflow checks (the debug
\* profile) and wraps in one without (the release profile).
OverflowChecks(n) == IF n = U64Max THEN {TRUE, FALSE} ELSE {FALSE}

\* Whether a NIF can be called: through the host, after load has returned;
\* always when the functions are called without the host's gate ("direct"
\* until load has run) or while load runs again.
Callable == library \notin {"unloaded", "loading"}

\* The connection identifiers a caller passes: the small ones, and any the
\* table holds.
CallIds ==
    ConnIds \cup (IF CONNECTIONS.some THEN DOMAIN CONNECTIONS.connections ELSE {})

Return(t, r) ==
    /\ pc' = [pc EXCEPT ![t] = "idle"]
    /\ local' = [local EXCEPT ![t] = NoLocal]
    /\ result' = [result EXCEPT ![t] = r]

Goto(t, label) == pc' = [pc EXCEPT ![t] = label]

\* A thread enters a NIF: the result of its last call is with the caller.
Enter(t, label, locals) ==
    /\ pc' = [pc EXCEPT ![t] = label]
    /\ local' = [local EXCEPT ![t] = locals]
    /\ result' = [result EXCEPT ![t] = NoResult]

\* Conns{connections: HashMap::new(), lifetime_connections: 0}, in Some.
EmptyConns ==
    [some |-> TRUE, connections |-> EmptyMap, lifetime_connections |-> 0]

\* A queries table whose counter starts at the first identifier instead
\* of before it.
EmptyQrysFromOne ==
    [some |-> TRUE, queries |-> EmptyMap, lifetime_queries |-> 1]

\* Qrys{queries: HashMap::new(), lifetime_queries: 0}, in Some.
EmptyQrys ==
    [some |-> TRUE, queries |-> EmptyMap, lifetime_queries |-> 0]

\* ------------------------------------------------------------- load
\* load, first half: CONNECTIONS.write().unwrap() and the insert of an
\* empty Conns. The write guard lives until load returns.
LoadConnections(t) ==
    /\ library = "unloaded"
    /\ pc[t] = "idle"
    /\ CanWrite(connLock)
    /\ library' = "loading"
    /\ IF connLock.poisoned
       THEN /\ Return(t, Ret("load", "panic", 0, "poisoned"))
            /\ UNCHANGED <<tables, locks, history>>
       ELSE /\ connLock' = [connLock EXCEPT !.writer = t]
            /\ CONNECTIONS' = EmptyConns
            /\ Goto(t, "load_queries")
            /\ UNCHANGED <<QUERIES, qryLock, local, result, history>>

\* load, second half: QUERIES.write().unwrap(), the insert of an empty
\* Qrys, and the return of true, which drops both write guards.
LoadQueries(t) ==
    /\ pc[t] = "load_queries"
    /\ CanWrite(qryLock)
    /\ IF qryLock.poisoned
       THEN /\ connLock' = ReleaseWrite(connLock, TRUE)
            /\ Return(t, Ret("load", "panic", 0, "poisoned"))
            /\ UNCHANGED <<library, tables, qryLock, history>>
       ELSE /\ QUERIES' = EmptyQrys
            /\ connLock' = ReleaseWrite(connLock, FALSE)
            /\ library' = "loaded"
            /\ Return(t, Ret("load", "ok", 0, "true"))
            /\ UNCHANGED <<CONNECTIONS, qryLock, history>>

\* ------------------------------------------------------------- open
\* A new entry of connections: (Mutex::new(connection), thread_count).
NewSlot(thread_count) ==
    [mutex |-> NoThread, poisoned |-> FALSE, thread_count |-> thread_count]

\* open with the identifier allocated before the engine is asked: a failed
\* native open has then used one up.
OpenCountsFirst(t) ==
    /\ Callable
    /\ pc[t] = "idle"
    /\ CONNECTIONS.lifetime_connections < MaxConnections
    /\ \E b \in OpenInputs :
         IF b.panic
         THEN Return(t, Ret("open", "panic", 0, "decode")) /\ UNCHANGED CONNECTIONS
         ELSE \E native \in UNION {NativeOpen(path) : path \in Paths} :
         IF native = "Ok"
         THEN /\ Enter(t, "open_write",
                       [NoLocal EXCEPT !.thread_count = b.thread_count,
                                       !.max_threads = b.max_threads])
              /\ UNCHANGED CONNECTIONS
         ELSE /\ Return(t, Ret("open", "error", 0, "open failed"))
              /\ CONNECTIONS' = [CONNECTIONS EXCEPT !.lifetime_connections = @ + 1]
    /\ UNCHANGED <<library, QUERIES, locks, history>>

\* open up to the match on conn: the config is built from config_settings
\* (an unwrap of a failed decode panics), the engine opens the database, in
\* memory for the sentinel path, and either fails, which returns
\* (error, message), or hands back the connection open goes on to insert.
Open(t) ==
    /\ Callable
    /\ pc[t] = "idle"
    /\ Len(openReturns) < MaxConnections
    /\ \E b \in OpenInputs :
         IF b.panic
         THEN Return(t, Ret("open", "panic", 0, "decode"))
         ELSE \E native \in UNION {NativeOpen(path) : path \in Paths} :
         IF native = "Ok"
         THEN Enter(t, "open_write",
                    [NoLocal EXCEPT !.thread_count = b.thread_count,
                                    !.max_threads = b.max_threads])
         ELSE Return(t, Ret("open", "error", 0, "open failed"))
    /\ UNCHANGED <<library, tables, locks, history>>

\* open, Ok arm: CONNECTIONS.write().unwrap().
OpenWrite(t) ==
    /\ pc[t] = "open_write"
    /\ CanWrite(connLock)
    /\ IF connLock.poisoned
       THEN /\ Return(t, Ret("open", "panic", 0, "poisoned"))
            /\ UNCHANGED connLock
       ELSE /\ connLock' = [connLock EXCEPT !.writer = t]
            /\ Goto(t, "open_insert")
            /\ UNCHANGED <<local, result>>
    /\ UNCHANGED <<library, tables, qryLock, history>>

\* open's insert with a table made on demand, get_or_insert_with in the
\* place of as_mut().unwrap(): an absent table is created by the insert.
OpenInsertLazy(t) ==
    /\ pc[t] = "open_insert"
    /\ LET id == NextId(CONNECTIONS.lifetime_connections) IN
         /\ CONNECTIONS' =
              [some |-> TRUE,
               lifetime_connections |-> id,
               connections |-> Insert(CONNECTIONS.connections, id,
                                      NewSlot(local[t].thread_count))]
         /\ connLock' = ReleaseWrite(connLock, FALSE)
         /\ Return(t, Ret("open", "ok", id, ""))
         /\ openReturns' = Append(openReturns, id)
         /\ requested' = Insert(requested, id, local[t].max_threads)
         /\ UNCHANGED queryReturns
    /\ UNCHANGED <<library, QUERIES, qryLock>>

\* open, Ok arm: as_mut().unwrap(), lifetime_connections += 1, the insert
\* under the new identifier, and the return of (ok, identifier), which
\* drops the write guard.
OpenInsert(t) ==
    /\ pc[t] = "open_insert"
    /\ IF ~CONNECTIONS.some
       THEN /\ connLock' = ReleaseWrite(connLock, TRUE)
            /\ Return(t, Ret("open", "panic", 0, "unwrap on None"))
            /\ UNCHANGED <<CONNECTIONS, history>>
       ELSE \E checked \in OverflowChecks(CONNECTIONS.lifetime_connections) :
            IF checked
            THEN /\ connLock' = ReleaseWrite(connLock, TRUE)
                 /\ Return(t, Ret("open", "panic", 0, "overflow"))
                 /\ UNCHANGED <<CONNECTIONS, history>>
            ELSE
            LET id == NextId(CONNECTIONS.lifetime_connections) IN
            /\ CONNECTIONS' =
                 [CONNECTIONS EXCEPT
                    !.lifetime_connections = id,
                    !.connections = Insert(@, id, NewSlot(local[t].thread_count))]
            /\ connLock' = ReleaseWrite(connLock, FALSE)
            /\ Return(t, Ret("open", "ok", id, ""))
            /\ openReturns' = Append(openReturns, id)
            /\ requested' = Insert(requested, id, local[t].max_threads)
            /\ UNCHANGED queryReturns
    /\ UNCHANGED <<library, QUERIES, qryLock>>

\* ------------------------------------------------------------- close
\* close is called with a connection identifier.
Close(t) ==
    /\ Callable
    /\ pc[t] = "idle"
    /\ \E conn_id \in CallIds :
         Enter(t, "close_write", [NoLocal EXCEPT !.conn_id = conn_id])
    /\ UNCHANGED <<library, tables, locks, history>>

\* close: CONNECTIONS.write().unwrap().
CloseWrite(t) ==
    /\ pc[t] = "close_write"
    /\ CanWrite(connLock)
    /\ IF connLock.poisoned
       THEN /\ Return(t, Ret("close", "panic", 0, "poisoned"))
            /\ UNCHANGED connLock
       ELSE /\ connLock' = [connLock EXCEPT !.writer = t]
            /\ Goto(t, "close_remove")
            /\ UNCHANGED <<local, result>>
    /\ UNCHANGED <<library, tables, qryLock, history>>

\* close with the lookup of the comment in its body, get(&conn_id).unwrap(),
\* before the removal: an absent identifier panics under the write guard.
CloseRemoveUnwrap(t) ==
    /\ pc[t] = "close_remove"
    /\ IF ~CONNECTIONS.some \/ local[t].conn_id \notin DOMAIN CONNECTIONS.connections
       THEN /\ connLock' = ReleaseWrite(connLock, TRUE)
            /\ Return(t, Ret("close", "panic", 0, "unwrap on None"))
            /\ UNCHANGED <<CONNECTIONS, history>>
       ELSE /\ CONNECTIONS' =
                 [CONNECTIONS EXCEPT !.connections = Remove(@, local[t].conn_id)]
            /\ connLock' = ReleaseWrite(connLock, FALSE)
            /\ Return(t, Ret("close", "ok", 0, ""))
            /\ requested' = Remove(requested, local[t].conn_id)
            /\ UNCHANGED <<openReturns, queryReturns>>
    /\ UNCHANGED <<library, QUERIES, qryLock>>

\* close: as_mut().unwrap().connections.remove(&conn_id), whose result is
\* thrown away, the drop of the write guard, and the return of ok.
CloseRemove(t) ==
    /\ pc[t] = "close_remove"
    /\ IF ~CONNECTIONS.some
       THEN /\ connLock' = ReleaseWrite(connLock, TRUE)
            /\ Return(t, Ret("close", "panic", 0, "unwrap on None"))
            /\ UNCHANGED <<CONNECTIONS, history>>
       ELSE /\ CONNECTIONS' =
                 [CONNECTIONS EXCEPT !.connections = Remove(@, local[t].conn_id)]
            /\ connLock' = ReleaseWrite(connLock, FALSE)
            /\ Return(t, Ret("close", "ok", 0, ""))
            /\ requested' = Remove(requested, local[t].conn_id)
            /\ UNCHANGED <<openReturns, queryReturns>>
    /\ UNCHANGED <<library, QUERIES, qryLock>>

\* ------------------------------------------------------------- lookup
\* Validity remembered from the time of issue instead of looked up: an
\* identifier counts as present once the counter has passed it.
FoundOnceIssued(conn_id) ==
    CONNECTIONS.some /\ conn_id \in 1 .. CONNECTIONS.lifetime_connections

\* as_ref().unwrap().connections.get(&conn_id) is Some: the table exists
\* and has an entry under conn_id.
Found(conn_id) ==
    CONNECTIONS.some /\ conn_id \in DOMAIN CONNECTIONS.connections

\* The slot get(&conn_id) hands back.
SlotOf(conn_id) == CONNECTIONS.connections[conn_id]

\* One mutex for the whole table instead of one per slot.
LockEverySlot(conns, conn_id, t) ==
    [conns EXCEPT !.connections =
        [k \in DOMAIN @ |-> [@[k] EXCEPT !.mutex = t]]]

\* Mutex::lock by thread t on the slot of conn_id.
LockSlot(conns, conn_id, t) ==
    [conns EXCEPT !.connections[conn_id].mutex = t]

\* A mutex guard that is leaked instead of dropped.
UnlockSlotLeaked(conns, conn_id, panicking) == conns

\* The drop of the mutex guard of the slot of conn_id; dropped while
\* panicking it poisons the mutex.
UnlockSlot(conns, conn_id, panicking) ==
    [conns EXCEPT !.connections[conn_id].mutex = NoThread,
                  !.connections[conn_id].poisoned = @ \/ panicking]

\* CONNECTIONS.read().unwrap() followed by the lookup of conn_id, as query,
\* library_version and number_of_threads start: the thread blocks while a
\* writer holds the lock; an unwrap of a poisoned lock, of an absent table
\* or of an absent entry panics, which drops the read guard again.
ReadAndGet(t, op, next) ==
    /\ CanRead(connLock)
    /\ IF connLock.poisoned
       THEN /\ Return(t, Ret(op, "panic", 0, "poisoned"))
            /\ UNCHANGED connLock
       ELSE IF ~Found(local[t].conn_id)
       THEN /\ Return(t, Ret(op, "panic", 0, "unwrap on None"))
            /\ UNCHANGED connLock
       ELSE /\ connLock' = [connLock EXCEPT !.readers = @ \cup {t}]
            /\ Goto(t, next)
            /\ UNCHANGED <<local, result>>

\* .0.lock().unwrap() on the slot found: the thread blocks while the mutex
\* is held; the unwrap of a poisoned mutex panics, which drops the read guard.
LockAndUnwrap(t, op, next) ==
    /\ MutexFree(SlotOf(local[t].conn_id))
    /\ IF SlotOf(local[t].conn_id).poisoned
       THEN /\ connLock' = ReleaseRead(connLock, t)
            /\ Return(t, Ret(op, "panic", 0, "poisoned"))
            /\ UNCHANGED CONNECTIONS
       ELSE /\ CONNECTIONS' = LockSlot(CONNECTIONS, local[t].conn_id, t)
            /\ Goto(t, next)
            /\ UNCHANGED <<connLock, local, result>>

\* ------------------------------------------------------------- query
\* query is called with a connection identifier (and a statement text the
\* registry hands to the engine unread).
Query(t) ==
    /\ Callable
    /\ pc[t] = "idle"
    /\ Len(queryReturns) < MaxQueries
    /\ \E conn_id \in CallIds :
         Enter(t, "query_read", [NoLocal EXCEPT !.conn_id = conn_id])
    /\ UNCHANGED <<library, tables, locks, history>>

\* query: CONNECTIONS.read().unwrap() and connections.get(&conn_id).unwrap().
QueryRead(t) ==
    /\ pc[t] = "query_read"
    /\ ReadAndGet(t, "query", "query_lock")
    /\ UNCHANGED <<library, tables, qryLock, history>>

\* query: .0.lock().unwrap().
QueryLock(t) ==
    /\ pc[t] = "query_lock"
    /\ LockAndUnwrap(t, "query", "query_prepare")
    /\ UNCHANGED <<library, QUERIES, qryLock, history>>

\* query: conn_object.prepare(qry), Ok or Err as the engine decides.
QueryPrepare(t) ==
    /\ pc[t] = "query_prepare"
    /\ \E prepared \in BOOLEAN :
         IF prepared
         THEN /\ Goto(t, "query_execute")
              /\ UNCHANGED local
         ELSE /\ Goto(t, "query_return")
              /\ local' = [local EXCEPT ![t].ret = "prepare failed"]
    /\ UNCHANGED <<library, tables, locks, result, history>>

\* query's execute with the cursor identifier reserved before the outcome
\* is known: lifetime_queries is advanced whether or not a cursor follows.
QueryExecuteCounts(t) ==
    /\ pc[t] = "query_execute"
    /\ \E executed \in BOOLEAN :
         IF executed
         THEN /\ Goto(t, "query_qwrite")
              /\ UNCHANGED local
         ELSE /\ Goto(t, "query_return")
              /\ local' = [local EXCEPT ![t].ret = "execute failed"]
    /\ QUERIES' = [QUERIES EXCEPT !.lifetime_queries = NextId(@)]
    /\ UNCHANGED <<library, CONNECTIONS, locks, result, history>>

\* query: stmt.query([]), Ok or Err as the engine decides.
QueryExecute(t) ==
    /\ pc[t] = "query_execute"
    /\ \E executed \in BOOLEAN :
         IF executed
         THEN /\ Goto(t, "query_qwrite")
              /\ UNCHANGED local
         ELSE /\ Goto(t, "query_return")
              /\ local' = [local EXCEPT ![t].ret = "execute failed"]
    /\ UNCHANGED <<library, tables, locks, result, history>>

\* query, Ok arm: QUERIES.write().unwrap(), with the slot's mutex guard and
\* the read guard of CONNECTIONS still held; a panic drops both.
QueryQWrite(t) ==
    /\ pc[t] = "query_qwrite"
    /\ CanWrite(qryLock)
    /\ IF qryLock.poisoned
       THEN /\ CONNECTIONS' = UnlockSlot(CONNECTIONS, local[t].conn_id, TRUE)
            /\ connLock' = ReleaseRead(connLock, t)
            /\ Return(t, Ret("query", "panic", 0, "poisoned"))
            /\ UNCHANGED qryLock
       ELSE /\ qryLock' = [qryLock EXCEPT !.writer = t]
            /\ Goto(t, "query_insert")
            /\ UNCHANGED <<CONNECTIONS, connLock, local, result>>
    /\ UNCHANGED <<library, QUERIES, history>>

\* query, Ok arm: as_mut().unwrap(), lifetime_queries += 1, the insert of
\* the cursor under the new identifier, and the end of the arm, which drops
\* the write guard of QUERIES. The cursor borrows from the connection of
\* conn_id.
QueryInsert(t) ==
    /\ pc[t] = "query_insert"
    /\ IF ~QUERIES.some
       THEN /\ qryLock' = ReleaseWrite(qryLock, TRUE)
            /\ CONNECTIONS' = UnlockSlot(CONNECTIONS, local[t].conn_id, TRUE)
            /\ connLock' = ReleaseRead(connLock, t)
            /\ Return(t, Ret("query", "panic", 0, "unwrap on None"))
            /\ UNCHANGED <<QUERIES, history>>
       ELSE \E checked \in OverflowChecks(QUERIES.lifetime_queries) :
            IF checked
            THEN /\ qryLock' = ReleaseWrite(qryLock, TRUE)
                 /\ CONNECTIONS' = UnlockSlot(CONNECTIONS, local[t].conn_id, TRUE)
                 /\ connLock' = ReleaseRead(connLock, t)
                 /\ Return(t, Ret("query", "panic", 0, "overflow"))
                 /\ UNCHANGED <<QUERIES, history>>
            ELSE
            LET id == NextId(QUERIES.lifetime_queries) IN
            /\ QUERIES' =
                 [QUERIES EXCEPT
                    !.lifetime_queries = id,
                    !.queries = Insert(@, id, [conn |-> local[t].conn_id])]
            /\ qryLock' = ReleaseWrite(qryLock, FALSE)
            /\ local' = [local EXCEPT ![t].ret = "ok", ![t].id = id]
            /\ Goto(t, "query_return")
            /\ queryReturns' = Append(queryReturns, id)
            /\ UNCHANGED <<CONNECTIONS, connLock, result, openReturns, requested>>
    /\ UNCHANGED library

\* query returns (ok, identifier) or (error, message): the mutex guard and
\* then the read guard are dropped.
QueryReturn(t) ==
    /\ pc[t] = "query_return"
    /\ CONNECTIONS' = UnlockSlot(CONNECTIONS, local[t].conn_id, FALSE)
    /\ connLock' = ReleaseRead(connLock, t)
    /\ IF local[t].ret = "ok"
       THEN Return(t, Ret("query", "ok", local[t].id, ""))
       ELSE Return(t, Ret("query", "error", 0, local[t].ret))
    /\ UNCHANGED <<library, QUERIES, qryLock, history>>

\* ------------------------------------------------------------- library_version
LibraryVersion(t) ==
    /\ Callable
    /\ pc[t] = "idle"
    /\ \E conn_id \in CallIds :
         Enter(t, "version_read", [NoLocal EXCEPT !.conn_id = conn_id])
    /\ UNCHANGED <<library, tables, locks, history>>

\* library_version: CONNECTIONS.read().unwrap() and get(&conn_id).unwrap().
VersionRead(t) ==
    /\ pc[t] = "version_read"
    /\ ReadAndGet(t, "library_version", "version_lock")
    /\ UNCHANGED <<library, tables, qryLock, history>>

\* library_version: .0.lock().unwrap().
VersionLock(t) ==
    /\ pc[t] = "version_lock"
    /\ LockAndUnwrap(t, "library_version", "version_call")
    /\ UNCHANGED <<library, QUERIES, qryLock, history>>

\* library_version: connection.version(), its text on Ok and "" on Err, and
\* the return, which drops the mutex guard and the read guard.
VersionCall(t) ==
    /\ pc[t] = "version_call"
    /\ \E answered \in BOOLEAN :
         Return(t, Ret("library_version", "string", 0,
                       IF answered THEN "vsn" ELSE ""))
    /\ CONNECTIONS' = UnlockSlot(CONNECTIONS, local[t].conn_id, FALSE)
    /\ connLock' = ReleaseRead(connLock, t)
    /\ UNCHANGED <<library, QUERIES, qryLock, history>>

\* ------------------------------------------------------------- number_of_threads
NumberOfThreads(t) ==
    /\ Callable
    /\ pc[t] = "idle"
    /\ \E conn_id \in CallIds :
         Enter(t, "threads_read", [NoLocal EXCEPT !.conn_id = conn_id])
    /\ UNCHANGED <<library, tables, locks, history>>

\* The initial value of thread_count instead of the one recorded.
ThreadCountDefault(slot) == 0

\* The u32 number_of_threads hands back: the .1 of the entry.
ThreadCountOf(slot) == slot.thread_count

\* number_of_threads: CONNECTIONS.read().unwrap(), get(&conn_id).unwrap(),
\* and the return of .1; the read guard is a temporary of the one statement.
ThreadsRead(t) ==
    /\ pc[t] = "threads_read"
    /\ CanRead(connLock)
    /\ IF connLock.poisoned
       THEN Return(t, Ret("number_of_threads", "panic", 0, "poisoned"))
       ELSE IF ~Found(local[t].conn_id)
       THEN Return(t, Ret("number_of_threads", "panic", 0, "unwrap on None"))
       ELSE Return(t, Ret("number_of_threads", "u32",
                          ThreadCountOf(SlotOf(local[t].conn_id)), ""))
    /\ UNCHANGED <<library, tables, locks, history>>

\* ------------------------------------------------------------- the program
\* A step of one of the NIFs of thread t.
Nif(t) ==
        \/ Open(t)
        \/ OpenWrite(t)
        \/ OpenInsert(t)
        \/ Close(t)
        \/ CloseWrite(t)
        \/ CloseRemove(t)
        \/ Query(t)
        \/ QueryRead(t)
        \/ QueryLock(t)
        \/ QueryPrepare(t)
        \/ QueryExecute(t)
        \/ QueryQWrite(t)
        \/ QueryInsert(t)
        \/ QueryReturn(t)
        \/ LibraryVersion(t)
        \/ VersionRead(t)
        \/ VersionLock(t)
        \/ VersionCall(t)
        \/ NumberOfThreads(t)
        \/ ThreadsRead(t)

\* The library as the host runs it: load once, then the NIFs.
Next ==
    \E t \in Threads :
        \/ LoadConnections(t)
        \/ LoadQueries(t)
        \/ Nif(t)

Spec == Init /\ [][Next]_vars

\* ------------------------------------------------------------- properties
\* The entries of connections without their mutexes: which identifiers are
\* present and the thread count recorded with each.
ConnEntries ==
    [id \in DOMAIN CONNECTIONS.connections |->
        CONNECTIONS.connections[id].thread_count]

Live == DOMAIN CONNECTIONS.connections

\* The steps of query and library_version that work on the native
\* connection: prepare, execute, version.
NativeSection == {"query_prepare", "query_execute", "version_call"}

\* Between the lookup and the release of a use operation: the thread holds
\* the read guard of CONNECTIONS.
UseSection ==
    {"query_lock", "query_prepare", "query_execute", "query_qwrite",
     "query_insert", "query_return", "version_lock", "version_call"}

\* The steps of query.
QuerySteps ==
    {"query_read", "query_lock", "query_prepare", "query_execute",
     "query_qwrite", "query_insert", "query_return"}

UseOps == {"query", "library_version", "number_of_threads"}

\* C1: the identifiers open returned are strictly increasing in the order
\* the opens committed, so none is returned twice, whatever was closed in
\* between.
C1_OpenIdsStrictlyIncreasing ==
    \A i, j \in DOMAIN openReturns :
        i < j => openReturns[i] < openReturns[j]

\* Two opens have returned and the connection of the first is closed.
C1_Witness ==
    /\ Len(openReturns) >= 2
    /\ openReturns[1] \notin Live

\* C2 (as the claim states it): a use operation on an identifier that is
\* absent from the table hands the caller a failure result; no call of
\* query, library_version or number_of_threads ends in a panic.
C2_AbsentIdIsAFailureResult ==
    \A t \in Threads :
        result[t].op \in UseOps => result[t].kind # "panic"

\* C3: the step of close that removes returns ok whatever the identifier,
\* and with the identifier absent it leaves the table, entries and counter,
\* as it was.
C3_CloseIdempotent ==
    [][\A t \in Threads :
          (pc[t] = "close_remove" /\ pc'[t] = "idle") =>
             /\ result'[t] = Ret("close", "ok", 0, "")
             /\ (local[t].conn_id \notin Live => CONNECTIONS' = CONNECTIONS)]_vars

\* Both threads have closed, one connection was ever opened and it is gone:
\* at least one of the two closes met an absent identifier, and both
\* returned ok.
C3_Witness ==
    /\ \A t \in Threads : result[t] = Ret("close", "ok", 0, "")
    /\ CONNECTIONS.lifetime_connections = 1
    /\ Live = {}

\* C4: at most one thread is in the native section of a connection.
C4_OneThreadPerConnection ==
    \A t, u \in Threads :
        (/\ t # u
         /\ pc[t] \in NativeSection
         /\ pc[u] \in NativeSection) => local[t].conn_id # local[u].conn_id

\* One query executes on a connection while another query waits for the
\* mutex of the same connection.
C4_Witness ==
    \E t, u \in Threads :
        /\ pc[t] = "query_execute"
        /\ pc[u] = "query_lock"
        /\ local[t].conn_id = local[u].conn_id

\* Thread t, in a query, cannot take its next step because of a lock that
\* thread u holds.
WaitsFor(t, u) ==
    \/ pc[t] = "query_read" /\ connLock.writer = u
    \/ pc[t] = "query_lock" /\ SlotOf(local[t].conn_id).mutex = u
    \/ pc[t] = "query_qwrite" /\ qryLock.writer = u

\* Threads t and u are in queries on two distinct connections, both found.
QueriesOnDistinct(t, u) ==
    /\ t # u
    /\ pc[t] \in QuerySteps \ {"query_read"}
    /\ pc[u] \in QuerySteps \ {"query_read"}
    /\ local[t].conn_id # local[u].conn_id

\* C5 (as the claim states it): of two queries on distinct connections
\* neither ever waits for a lock the other holds.
C5_DistinctQueriesNeverWait ==
    \A t, u \in Threads : QueriesOnDistinct(t, u) => ~WaitsFor(t, u)

\* C5 (amended): of two queries on distinct connections neither waits for
\* the other's hold on the connections table or on a slot mutex; the one
\* lock a query can hold in the other's way is the write lock of QUERIES,
\* and it holds that for the insert of its cursor only, after its prepare
\* and execute.
C5_DistinctQueriesWaitOnlyForInsert ==
    \A t, u \in Threads :
        QueriesOnDistinct(t, u) =>
            /\ WaitsFor(t, u) => (pc[t] = "query_qwrite" /\ pc[u] = "query_insert")
            /\ connLock.writer = NoThread
            /\ SlotOf(local[t].conn_id).mutex # u

\* Two queries are in their native sections at once, on two connections.
C5_Witness ==
    \E t, u \in Threads :
        /\ QueriesOnDistinct(t, u)
        /\ pc[t] = "query_prepare"
        /\ pc[u] = "query_execute"

\* The locks thread t holds.
HoldsNoLock(t) ==
    /\ connLock.writer # t
    /\ t \notin connLock.readers
    /\ qryLock.writer # t
    /\ \A id \in Live : CONNECTIONS.connections[id].mutex # t

\* C6: while a thread is between the lookup and the release of a use
\* operation no writer holds the connections table, the slot it looked up
\* stays in the table, and no step adds or removes an entry or moves the
\* counter; so close drops a connection only when no use of it is in
\* flight, and a use never works on a dropped one.
C6_StructuralExcludesUse ==
    /\ [](\A t \in Threads :
            pc[t] \in UseSection =>
               /\ connLock.writer = NoThread
               /\ t \in connLock.readers
               /\ local[t].conn_id \in Live)
    /\ [][(\E t \in Threads : pc[t] \in UseSection) =>
             /\ ConnEntries' = ConnEntries
             /\ CONNECTIONS'.lifetime_connections = CONNECTIONS.lifetime_connections]_vars

\* A close waits for the write lock while a query is in the native section
\* of the connection it is to remove.
C6_Witness ==
    \E t, u \in Threads :
        /\ pc[t] = "close_write"
        /\ pc[u] \in NativeSection
        /\ local[t].conn_id = local[u].conn_id

\* C7 (as the claim states it): the connection each cursor in queries was
\* created from is present in connections.
C7_CursorHasLiveConnection ==
    \A q \in DOMAIN QUERIES.queries : QUERIES.queries[q].conn \in Live

\* C8: a live connection carries the thread count its open was given, and
\* number_of_threads returns that number.
C8_ThreadCountIsTheOneRequested ==
    /\ [](\A id \in Live :
            requested[id] # Absent =>
               CONNECTIONS.connections[id].thread_count = requested[id].n)
    /\ [][\A t \in Threads :
            (/\ pc[t] = "threads_read"
             /\ pc'[t] = "idle"
             /\ result'[t].kind = "u32"
             /\ requested[local[t].conn_id] # Absent) =>
                result'[t].val = requested[local[t].conn_id].n]_vars

\* number_of_threads has returned 4 for a connection opened with
\* maximum_threads = 4, on which a query has made a cursor, with another
\* connection opened as well.
C8_Witness ==
    /\ \E t \in Threads : result[t] = Ret("number_of_threads", "u32", 4, "")
    /\ \E q \in DOMAIN QUERIES.queries :
          /\ QUERIES.queries[q].conn \in Live
          /\ requested[QUERIES.queries[q].conn] = IntT(4)
    /\ CONNECTIONS.lifetime_connections = 2

\* C9: the step of open in which the native open fails returns an error and
\* leaves both tables and their locks as they were.
C9_FailedOpenCreatesNothing ==
    [][\A t \in Threads :
          (Open(t) /\ result'[t].kind = "error") =>
             /\ result'[t].op = "open"
             /\ pc'[t] = "idle"
             /\ UNCHANGED <<CONNECTIONS, QUERIES, connLock, qryLock>>]_vars

\* An open has failed, and the open after it got the first identifier.
C9_Witness ==
    \E t, u \in Threads :
        /\ result[t] = Ret("open", "error", 0, "open failed")
        /\ result[u] = Ret("open", "ok", 1, "")

\* A step of thread t on the failure path of query: prepare or execute
\* fails, or the failed query returns.
QueryFailureStep(t) ==
    \/ pc[t] \in {"query_prepare", "query_execute"} /\ pc'[t] = "query_return"
    \/ pc[t] = "query_return" /\ local[t].ret # "ok" /\ pc'[t] = "idle"

\* C10: a query that fails at prepare or at execute changes neither queries
\* nor connections on its way out, returns an error with the engine's
\* message, and holds no lock once it has returned.
C10_FailedQueryCreatesNothing ==
    [][\A t \in Threads :
          QueryFailureStep(t) =>
             /\ QUERIES' = QUERIES
             /\ ConnEntries' = ConnEntries
             /\ CONNECTIONS'.lifetime_connections = CONNECTIONS.lifetime_connections
             /\ qryLock' = qryLock
             /\ pc'[t] = "idle" =>
                   /\ result'[t].op = "query"
                   /\ result'[t].kind = "error"
                   /\ result'[t].str \in {"prepare failed", "execute failed"}
                   /\ HoldsNoLock(t)']_vars

\* A query has failed at execute and returned, no cursor exists, and a
\* thread is in the native section of a connection again.
C10_Witness ==
    /\ \E t \in Threads : result[t] = Ret("query", "error", 0, "execute failed")
    /\ QUERIES.lifetime_queries = 0
    /\ \E u \in Threads : pc[u] \in NativeSection

\* C11: the two resource classes have disjoint identifier spaces: no
\* identifier present in queries is at the same time present in
\* connections, so that no identifier query has returned is accepted as a
\* connection identifier.
C11_IdentifierSpacesDisjoint ==
    (CONNECTIONS.some /\ QUERIES.some) =>
        DOMAIN QUERIES.queries \cap DOMAIN CONNECTIONS.connections = {}

\* ------------------------------------------------------------- load, again
\* load called on tables that exist, first half: CONNECTIONS.write().unwrap()
\* and test.insert(Conns{..}), which puts a new empty Conns in the place of
\* the old one and drops the old one with its connections. The second half
\* is LoadQueries.
LoadAgain(t) ==
    /\ library = "loaded"
    /\ pc[t] = "idle"
    /\ CanWrite(connLock)
    /\ IF connLock.poisoned
       THEN /\ Return(t, Ret("load", "panic", 0, "poisoned"))
            /\ UNCHANGED <<library, tables, locks, history>>
       ELSE /\ library' = "reloading"
            /\ connLock' = [connLock EXCEPT !.writer = t]
            /\ CONNECTIONS' = EmptyConns
            /\ requested' = EmptyMap
            /\ Goto(t, "load_queries")
            /\ UNCHANGED <<QUERIES, qryLock, local, result,
                           openReturns, queryReturns>>

\* The library with load callable like any other function.
NextReload ==
    \E t \in Threads :
        \/ LoadConnections(t)
        \/ LoadQueries(t)
        \/ LoadAgain(t)
        \/ Nif(t)

SpecReload == Init /\ [][NextReload]_vars

\* C12: initialization takes effect once: a load on tables that exist
\* fails or does nothing, and either way leaves the entries and the
\* last-issued identifier of both tables as they were.
C12_SecondLoadChangesNothing ==
    [][\A t \in Threads :
          (LoadAgain(t) \/ (library = "reloading" /\ LoadQueries(t))) =>
             /\ CONNECTIONS' = CONNECTIONS
             /\ QUERIES' = QUERIES]_vars

\* C13: a recognized key of config_settings whose value fails to decode is
\* ignored, as if the key were absent: open does not abort on it, so no
\* call of open ends in the panic of a failed decode.
C13_UndecodableValueIsIgnored ==
    \A t \in Threads :
        result[t].op = "open" => ~(result[t].kind = "panic" /\ result[t].str = "decode")

\* ------------------------------------------------------------- the last identifiers
\* The library after load and a long life: every connection opened so far
\* is closed again, and lifetime_connections is one below the limit.
InitOverflow ==
    /\ library = "loaded"
    /\ CONNECTIONS = [some |-> TRUE, connections |-> EmptyMap,
                      lifetime_connections |-> U64Max - 1]
    /\ connLock = FreeLock
    /\ QUERIES = EmptyQrys
    /\ qryLock = FreeLock
    /\ pc = [t \in Threads |-> "idle"]
    /\ local = [t \in Threads |-> NoLocal]
    /\ result = [t \in Threads |-> NoResult]
    /\ openReturns = <<>>
    /\ queryReturns = <<>>
    /\ requested = EmptyMap

NextOverflow == \E t \in Threads : Nif(t)

SpecOverflow == InitOverflow /\ [][NextOverflow]_vars

\* C14: the identifiers do not wrap: an insert on a counter at the limit of
\* its width fails, so that 0 is never issued or stored and no identifier
\* is issued twice.
C14_ExhaustionNeverWraps ==
    /\ 0 \notin DOMAIN CONNECTIONS.connections
    /\ \A i \in DOMAIN openReturns : openReturns[i] # 0
    /\ \A i, j \in DOMAIN openReturns : i # j => openReturns[i] # openReturns[j]

\* ------------------------------------------------------------- calls before load
\* The statics as the process starts them, None in both, with the functions
\* callable before load has run.
InitEarly ==
    /\ library = "direct"
    /\ CONNECTIONS = [some |-> FALSE, connections |-> EmptyMap, lifetime_connections |-> 0]
    /\ connLock = FreeLock
    /\ QUERIES = [some |-> FALSE, queries |-> EmptyMap, lifetime_queries |-> 0]
    /\ qryLock = FreeLock
    /\ pc = [t \in Threads |-> "idle"]
    /\ local = [t \in Threads |-> NoLocal]
    /\ result = [t \in Threads |-> NoResult]
    /\ openReturns = <<>>
    /\ queryReturns = <<>>
    /\ requested = EmptyMap

\* load, first half, run while the other functions are already being
\* called: CONNECTIONS.write().unwrap(), which panics on a lock a panic
\* has poisoned, and the insert of an empty Conns. The second half is
\* LoadQueries.
LoadDirect(t) ==
    /\ library = "direct"
    /\ pc[t] = "idle"
    /\ CanWrite(connLock)
    /\ IF connLock.poisoned
       THEN /\ Return(t, Ret("load", "panic", 0, "poisoned"))
            /\ UNCHANGED <<library, tables, locks, history>>
       ELSE /\ library' = "direct_loading"
            /\ connLock' = [connLock EXCEPT !.writer = t]
            /\ CONNECTIONS' = EmptyConns
            /\ Goto(t, "load_queries")
            /\ UNCHANGED <<QUERIES, qryLock, local, result, history>>

NextEarly ==
    \E t \in Threads :
        \/ LoadDirect(t)
        \/ LoadQueries(t)
        \/ Nif(t)

SpecEarly == InitEarly /\ [][NextEarly]_vars

\* The steps in which a function unwraps the Option of CONNECTIONS.
TableSteps ==
    {"open_insert", "close_remove", "query_read", "version_read", "threads_read"}

\* C15 as claimed: every call that ends while the tables are absent ends in
\* a fatal error.
C15_EveryEarlyCallIsFatal ==
    ~CONNECTIONS.some =>
        \A t \in Threads : result[t] = NoResult \/ result[t].kind = "panic"

\* C15: a call that reaches the table while it is absent panics there, and
\* no call that ends while the tables are absent returns an identifier or a
\* value: it ends in a panic, or it is an open whose native open failed and
\* returns that error without having reached the table. Neither creates a
\* table or a slot; only load creates the tables.
C15_AbsentTableIsFatal ==
    [][/\ \A t \in Threads :
            (~CONNECTIONS.some /\ pc'[t] # pc[t] /\ "load_queries" \notin {pc[t], pc'[t]}) =>
               /\ pc[t] \in TableSteps =>
                     pc'[t] = "idle" /\ result'[t].kind = "panic"
               /\ pc'[t] = "idle" =>
                     \/ result'[t].kind = "panic"
                     \/ result'[t] = Ret("open", "error", 0, "open failed")
               /\ CONNECTIONS' = CONNECTIONS
               /\ QUERIES' = QUERIES
       /\ (~CONNECTIONS.some /\ CONNECTIONS'.some) =>
             \E t \in Threads : pc[t] = "idle" /\ pc'[t] = "load_queries"
       /\ ~CONNECTIONS.some =>
             CONNECTIONS.connections = EmptyMap /\ ~QUERIES.some]_vars

\* Before load, a number_of_threads and then an open have reached the
\* absent table and panicked, and the tables are absent still.
C15_Witness ==
    /\ ~CONNECTIONS.some /\ ~QUERIES.some
    /\ \E t, u \in Threads :
          /\ result[t] = Ret("open", "panic", 0, "unwrap on None")
          /\ result[u] = Ret("number_of_threads", "panic", 0, "unwrap on None")

\* C16: each counter starts at 1 and never issues 0: the i-th identifier
\* open returns after load is i, the i-th identifier query issues is i, and
\* two query calls never get the same cursor identifier.
C16_IdsCountFromOne ==
    /\ \A i \in DOMAIN openReturns : openReturns[i] = i
    /\ \A i \in DOMAIN queryReturns : queryReturns[i] = i
    /\ \A t \in Threads :
          (result[t].kind = "ok" /\ result[t].op \in {"open", "query"}) =>
             result[t].val >= 1
    /\ \A t, u \in Threads :
          (/\ t # u
           /\ result[t].op = "query" /\ result[t].kind = "ok"
           /\ result[u].op = "query" /\ result[u].kind = "ok") =>
             result[t].val # result[u].val

\* Two threads have run query at the same time on the first connection and
\* both have returned: one got cursor 1, the other cursor 2.
C16_Witness ==
    /\ openReturns # <<>> /\ openReturns[1] = 1
    /\ queryReturns = <<1, 2>>
    /\ \E t, u \in Threads :
          /\ result[t] = Ret("query", "ok", 1, "")
          /\ result[u] = Ret("query", "ok", 2, "")

\* C18: the step of close(id) that removes takes away the slot of id and
\* nothing else: every other connection slot stays, with its thread count,
\* its mutex and its poison flag; the last-issued connection identifier
\* and the whole of queries are unchanged.
C18_CloseRemovesOnlyItsSlot ==
    [][\A t \in Threads :
          (pc[t] = "close_remove" /\ pc'[t] = "idle" /\ CONNECTIONS.some) =>
             /\ DOMAIN CONNECTIONS'.connections =
                   DOMAIN CONNECTIONS.connections \ {local[t].conn_id}
             /\ \A id \in DOMAIN CONNECTIONS'.connections :
                   CONNECTIONS'.connections[id] = CONNECTIONS.connections[id]
             /\ CONNECTIONS'.lifetime_connections = CONNECTIONS.lifetime_connections
             /\ CONNECTIONS'.some
             /\ QUERIES' = QUERIES]_vars

\* Of two connections the first has been closed; the second is still in
\* the table and answers with its thread count.
C18_Witness ==
    /\ DOMAIN CONNECTIONS.connections = {2}
    /\ \E t, u \in Threads :
          /\ result[t] = Ret("close", "ok", 0, "")
          /\ result[u].op = "number_of_threads" /\ result[u].kind = "u32"

\* C20: after the one initialization, every key of connections lies in
\* 1 .. lifetime_connections and the keys of queries are exactly
\* 1 .. lifetime_queries; only a successful query changes queries, and
\* it leaves the entries and the counter of connections as they were.
C20_TablesMatchTheirCounters ==
    /\ [](CONNECTIONS.some =>
             DOMAIN CONNECTIONS.connections \subseteq
                1 .. CONNECTIONS.lifetime_connections)
    /\ [](QUERIES.some =>
             DOMAIN QUERIES.queries = 1 .. QUERIES.lifetime_queries)
    /\ [][(QUERIES.some /\ QUERIES' # QUERIES) =>
             /\ \E t \in Threads :
                   /\ pc[t] = "query_insert" /\ pc'[t] = "query_return"
                   /\ local'[t].ret = "ok"
                   /\ QUERIES'.queries =
                         Insert(QUERIES.queries, local'[t].id,
                                [conn |-> local[t].conn_id])
                   /\ local'[t].id = QUERIES'.lifetime_queries
             /\ ConnEntries' = ConnEntries
             /\ CONNECTIONS'.lifetime_connections =
                   CONNECTIONS.lifetime_connections]_vars

\* The first of two connections has been closed, so the keys of
\* connections fall short of the counter, and two queries have succeeded,
\* the second of them returning cursor 2.
C20_Witness ==
    /\ CONNECTIONS.lifetime_connections = 2
    /\ DOMAIN CONNECTIONS.connections = {2}
    /\ DOMAIN QUERIES.queries = {1, 2}
    /\ \E t \in Threads : result[t] = Ret("query", "ok", 2, "")

\* The identifiers open has returned.
Issued == {openReturns[i] : i \in DOMAIN openReturns}

\* The steps in which a use operation looks conn_id up.
LookupSteps == {"query_read", "version_read", "threads_read"}

\* C17: an identifier is valid exactly while its slot is in the table, and
\* that is decided at the lookup: the open that returns id leaves its slot
\* in the table; nothing but the removing step of a close(id) takes it out;
\* a lookup of id finds the slot if and only if it is in the table at that
\* moment; and an identifier that was issued and is gone never comes back.
C17_ValidityTracksPresence ==
    [][/\ \A t \in Threads :
            (result'[t].op = "open" /\ result'[t].kind = "ok" /\ pc[t] # "idle") =>
               result'[t].val \in Live'
       /\ \A id \in Live \ Live' :
            \E t \in Threads :
               /\ pc[t] = "close_remove" /\ pc'[t] = "idle"
               /\ local[t].conn_id = id
       /\ \A t \in Threads :
            (pc[t] \in LookupSteps /\ pc'[t] # pc[t] /\ ~connLock.poisoned) =>
               (local[t].conn_id \in Live <=>
                   ~(pc'[t] = "idle" /\ result'[t].kind = "panic"))
       /\ \A id \in Issued \ Live : id \notin Live']_vars

\* Connection 1 was opened and has been closed; a number_of_threads(1)
\* after the close found nothing.
C17_Witness ==
    /\ 1 \in Issued /\ 1 \notin Live
    /\ \E t, u \in Threads :
          /\ result[t] = Ret("close", "ok", 0, "")
          /\ result[u] = Ret("number_of_threads", "panic", 0, "unwrap on None")

\* ------------------------------------------------------------- fairness
\* The steps of thread t inside a call: everything but the entry into a
\* NIF or into load.
Continue(t) ==
    \/ LoadQueries(t)
    \/ OpenWrite(t)
    \/ OpenInsert(t)
    \/ CloseWrite(t)
    \/ CloseRemove(t)
    \/ QueryRead(t)
    \/ QueryLock(t)
    \/ QueryPrepare(t)
    \/ QueryExecute(t)
    \/ QueryQWrite(t)
    \/ QueryInsert(t)
    \/ QueryReturn(t)
    \/ VersionRead(t)
    \/ VersionLock(t)
    \/ VersionCall(t)
    \/ ThreadsRead(t)

\* The library under a fair scheduler with native calls that return: a
\* thread inside a call whose next step can be taken again and again does
\* take it; in particular a thread that waits for a lock gets it if the
\* lock keeps becoming free. When calls are made is left open.
FairSpec == Spec /\ \A t \in Threads : SF_vars(Continue(t))

\* Thread t waits in write() for the write lock of CONNECTIONS.
WritePending(t) == pc[t] \in {"open_write", "close_write"}

\* Thread t is blocked in a lock acquisition that thread u stands in the
\* way of: u holds the lock, or, for a read of an RwLock that prefers
\* writers, u waits to write.
Waits(t, u) ==
    \/ /\ WritePending(t)
       /\ connLock.writer = u \/ u \in connLock.readers
    \/ /\ pc[t] \in LookupSteps
       /\ connLock.writer = u \/ (u # t /\ WritePending(u))
    \/ /\ pc[t] \in {"query_lock", "version_lock"}
       /\ SlotOf(local[t].conn_id).mutex = u
    \/ /\ pc[t] \in {"query_qwrite", "load_queries"}
       /\ qryLock.writer = u

====
